---- MODULE Spec2Model ----
(***************************************************************************)
(* A model of newsbot.py (brayvid/news-digest-bot): the lockfile guard,    *)
(* the run of main() (load history, fetch and filter, ranking call,        *)
(* deduplication, rebuild, send, history update, prune, save, release),    *)
(* the duplicate check is_in_history and the parser safe_parse_json.       *)
(*                                                                         *)
(* Five specifications share the variables:                                *)
(*   Spec        invocations of the script, one after another, against one *)
(*               history.json and one newsbot.lock                         *)
(*   SpecLock    invocations of the script that may overlap                *)
(*   SpecMatch   is_in_history applied to bounded titles and histories     *)
(*   SpecParse   safe_parse_json applied to bounded texts                  *)
(*   SpecBalance balance_braces applied to the same texts                  *)
(***************************************************************************)
EXTENDS Integers, Sequences, FiniteSets, TLC

VARIABLES
    \* ---- the file system and the clock
    lockfile,        \* newsbot.lock exists
    historyFile,     \* history.json: [exists, valid, data]
    now,             \* the day datetime.now(ZONE) falls on
    overlap,         \* whether invocations may overlap in this behaviour
    \* ---- one invocation of the script (indexed by process)
    pc,              \* position in the script
    history,         \* main's local `history`
    loaded,          \* history.json as read at lines 412-416 (kept for the claims)
    feed,            \* what fetch_articles_for_topic returned, per topic (kept for the claims)
    full_articles,   \* main's `full_articles`: topic -> allowed articles
    response,        \* what prioritize_with_gemini returned (kept for the claims)
    digest_titles,   \* main's `digest_titles`: the selection, then deduplicated
    digest,          \* main's `digest`: sequence of [topic, articles]
    sendResult,      \* "none" | "ok" | "failed"
    exitPath,        \* how the invocation ended
    recorded,        \* the entries appended after a send so far, by any invocation
    \* ---- is_in_history as a function
    m_title, m_history, m_result,
    \* ---- safe_parse_json as a function
    raw, parsed,
    \* ---- balance_braces as a function, applied to raw
    balanced

mainVars  == <<lockfile, historyFile, now, overlap, pc, history, loaded,
               full_articles, response, digest_titles, digest, sendResult,
               exitPath, feed, recorded>>
matchVars == <<m_title, m_history, m_result>>
parseVars == <<raw, parsed, balanced>>
vars      == <<mainVars, matchVars, parseVars>>

----------------------------------------------------------------------------
(* Words and titles.  A title is the sequence of its whitespace-separated  *)
(* words (text.split()).  A word is a stem in a surface form: lower case,  *)
(* capitalised, or with a plural suffix.                                   *)

Forms == {"lower", "cap", "plural"}

Word(s, f) == [stem |-> s, form |-> f]

\* str.lower() on one word (line 169)
Lower(w) == IF w.form = "cap" THEN Word(w.stem, "lower") ELSE w

\* PorterStemmer.stem on one (lower-cased) word: strips the plural suffix (line 170)
PorterStem(w) == IF w.form = "plural" THEN Word(w.stem, "lower") ELSE Lower(w)

\* WordNetLemmatizer.lemmatize on a stemmed word: a stem is its own lemma (line 171)
Lemmatize(w) == w

\* normalize(text), lines 168-172: the sequence of reduced words stands for
\* the string they are joined into (no reduced word holds a space).
normalize(text) ==
    [i \in 1..Len(text) |-> Lemmatize(PorterStem(Lower(text[i])))]

\* set(normalize(t).split())
Tokens(text) == {normalize(text)[i] : i \in 1..Len(text)}

----------------------------------------------------------------------------
(* is_in_history, lines 175-188 *)

MATCH_THRESHOLD_NUM == 4
MATCH_THRESHOLD_DEN == 10

\* history.values() laid end to end, for any order of the keys
RECURSIVE FlatEntries(_)
FlatEntries(h) ==
    IF DOMAIN h = {} THEN <<>>
    ELSE LET k == CHOOSE x \in DOMAIN h : TRUE
         IN  h[k] \o FlatEntries([y \in DOMAIN h \ {k} |-> h[y]])

\* (variant: the comparison of line 185 written > instead of >=)
SimilarityReached_strict(common, tokens) ==
    common * MATCH_THRESHOLD_DEN > MATCH_THRESHOLD_NUM * tokens

\* similarity >= MATCH_THRESHOLD with similarity = overlap / tokens
SimilarityReached(common, tokens) ==
    common * MATCH_THRESHOLD_DEN >= MATCH_THRESHOLD_NUM * tokens

\* the two loops of lines 178-186 over the entries in order; the division of
\* line 184 raises ZeroDivisionError when the candidate has no token
RECURSIVE ScanHistory(_, _)
ScanHistory(norm_title_tokens, entries) ==
    IF entries = <<>> THEN "false"
    ELSE LET past_tokens == Tokens(Head(entries).title)
         IN  IF past_tokens = {}
             THEN ScanHistory(norm_title_tokens, Tail(entries))
             ELSE IF Cardinality(norm_title_tokens) = 0
             THEN "ZeroDivisionError"
             ELSE IF SimilarityReached(
                        Cardinality(norm_title_tokens \cap past_tokens),
                        Cardinality(norm_title_tokens))
             THEN "true"
             ELSE ScanHistory(norm_title_tokens, Tail(entries))

is_in_history(article_title, h) ==
    ScanHistory(Tokens(article_title), FlatEntries(h))

----------------------------------------------------------------------------
(* The data of a run *)

\* the keys of TOPIC_WEIGHTS in their order (line 429)
TOPIC_WEIGHTS == <<"World News", "Tech">>

Topics == {TOPIC_WEIGHTS[i] : i \in 1..Len(TOPIC_WEIGHTS)}

\* topic.replace(" ", "_").lower() (line 526)
TopicKey(topic) ==
    CASE topic = "World News" -> "world_news"
      [] topic = "Tech"       -> "tech"

\* a date string: whether parsedate_to_datetime accepts it, and the day it names
Date(d)  == [ok |-> TRUE, day |-> d]
BadDate  == [ok |-> FALSE, day |-> 0]

Article(title, link, pubDate) == [title |-> title, link |-> link, pubDate |-> pubDate]
Entry(title, pubDate)         == [title |-> title, pubDate |-> pubDate]

\* the banned terms of OVERRIDES (line 433) and contains_banned_keyword
\* (lines 368-370), a term matching when it is a word of the normalized text
BannedTerms == {Word(9, "lower")}

contains_banned_keyword(text, banned_terms) ==
    \E banned \in banned_terms : \E i \in 1..Len(text) : normalize(text)[i] = banned

\* (variant: the comprehension of lines 434-437 without the is_in_history test)
RECURSIVE AllowedArticles_banOnly(_, _)
AllowedArticles_banOnly(articles, h) ==
    IF articles = <<>> THEN [raised |-> FALSE, allowed |-> <<>>]
    ELSE LET a    == Head(articles)
             rest == AllowedArticles_banOnly(Tail(articles), h)
         IN  IF ~contains_banned_keyword(a.title, BannedTerms)
             THEN [raised |-> FALSE, allowed |-> <<a>> \o rest.allowed]
             ELSE rest

\* the list comprehension of lines 434-437: is_in_history is evaluated first
\* and its exception ends the comprehension
RECURSIVE AllowedArticles(_, _)
AllowedArticles(articles, h) ==
    IF articles = <<>> THEN [raised |-> FALSE, allowed |-> <<>>]
    ELSE LET a    == Head(articles)
             seen == is_in_history(a.title, h)
             rest == AllowedArticles(Tail(articles), h)
         IN  IF seen = "ZeroDivisionError" \/ rest.raised
             THEN [raised |-> TRUE, allowed |-> <<>>]
             ELSE IF seen = "false" /\ ~contains_banned_keyword(a.title, BannedTerms)
             THEN [raised |-> FALSE, allowed |-> <<a>> \o rest.allowed]
             ELSE rest

\* the loop of lines 429-440 over the topics from the i-th on
RECURSIVE FetchLoop(_, _, _)
FetchLoop(i, fetched, h) ==
    IF i > Len(TOPIC_WEIGHTS) THEN [raised |-> FALSE, full |-> <<>>]
    ELSE LET topic == TOPIC_WEIGHTS[i]
             r     == AllowedArticles(fetched[topic], h)
             rest  == FetchLoop(i + 1, fetched, h)
         IN  IF r.raised \/ rest.raised THEN [raised |-> TRUE, full |-> <<>>]
             ELSE IF r.allowed # <<>>
             THEN [raised |-> FALSE,
                   full |-> <<[topic |-> topic, articles |-> r.allowed]>> \o rest.full]
             ELSE rest

\* a dict given as a sequence of [topic, ...] items, read as a function
Get(items, topic, field) ==
    IF \E i \in 1..Len(items) : items[i].topic = topic
    THEN (items[CHOOSE i \in 1..Len(items) : items[i].topic = topic])[field]
    ELSE <<>>

----------------------------------------------------------------------------
(* Deduplicate headlines, lines 452-464 *)

\* the inner loop of lines 457-461: the titles kept and the set seen after it
RECURSIVE DedupTitles(_, _)
DedupTitles(titles, seen_normalized_titles) ==
    IF titles = <<>> THEN [kept |-> <<>>, seen |-> seen_normalized_titles]
    ELSE LET norm_title == normalize(Head(titles))
         IN  IF norm_title \notin seen_normalized_titles
             THEN LET r == DedupTitles(Tail(titles),
                                       seen_normalized_titles \cup {norm_title})
                  IN  [kept |-> <<Head(titles)>> \o r.kept, seen |-> r.seen]
             ELSE DedupTitles(Tail(titles), seen_normalized_titles)

\* (variant: seen_normalized_titles reset for every topic)
RECURSIVE DedupDigest_perTopic(_, _)
DedupDigest_perTopic(items, seen_normalized_titles) ==
    IF items = <<>> THEN <<>>
    ELSE LET r == DedupTitles(Head(items).titles, {})
         IN  (IF r.kept # <<>>
              THEN <<[topic |-> Head(items).topic, titles |-> r.kept]>>
              ELSE <<>>)
             \o DedupDigest_perTopic(Tail(items), {})

\* the outer loop of lines 455-463
RECURSIVE DedupDigest(_, _)
DedupDigest(items, seen_normalized_titles) ==
    IF items = <<>> THEN <<>>
    ELSE LET r == DedupTitles(Head(items).titles, seen_normalized_titles)
         IN  (IF r.kept # <<>>
              THEN <<[topic |-> Head(items).topic, titles |-> r.kept]>>
              ELSE <<>>)
             \o DedupDigest(Tail(items), r.seen)

(* Rebuild article entries, lines 466-479 *)

\* (variant: a title that matches no article becomes an article itself)
RECURSIVE FirstMatch_trusting(_, _)
FirstMatch_trusting(articles, title) ==
    IF articles = <<>>
    THEN <<Article(title, [topic |-> "", n |-> 0], Date(0))>>
    ELSE IF normalize(Head(articles).title) = normalize(title)
    THEN <<Head(articles)>>
    ELSE FirstMatch_trusting(Tail(articles), title)

\* the first article whose normalized title is that of the title (lines 473-477)
RECURSIVE FirstMatch(_, _)
FirstMatch(articles, title) ==
    IF articles = <<>> THEN <<>>
    ELSE IF normalize(Head(articles).title) = normalize(title)
    THEN <<Head(articles)>>
    ELSE FirstMatch(Tail(articles), title)

\* the loop of lines 472-477 for one topic
RECURSIVE SelectArticles(_, _, _)
SelectArticles(titles, articles, seen_titles) ==
    IF titles = <<>> THEN <<>>
    ELSE LET title == Head(titles)
             found == IF normalize(title) \in seen_titles THEN <<>>
                      ELSE FirstMatch(articles, title)
         IN  found \o SelectArticles(Tail(titles), articles,
                        IF found # <<>> THEN seen_titles \cup {normalize(title)}
                        ELSE seen_titles)

\* the loop of lines 468-479
RECURSIVE Rebuild(_, _)
Rebuild(items, full) ==
    IF items = <<>> THEN <<>>
    ELSE LET selected == SelectArticles(Head(items).titles,
                                        Get(full, Head(items).topic, "articles"), {})
         IN  (IF selected # <<>>
              THEN <<[topic |-> Head(items).topic, articles |-> selected]>>
              ELSE <<>>)
             \o Rebuild(Tail(items), full)

----------------------------------------------------------------------------
(* History update, lines 525-536, and prune, lines 541-555 *)

HISTORY_CAP    == 40
RETENTION_DAYS == 30

\* (variant: s[:n], which keeps the oldest entries)
LastN_oldest(s, n) == IF Len(s) <= n THEN s ELSE SubSeq(s, 1, n)

\* s[-n:]
LastN(s, n) == IF Len(s) <= n THEN s ELSE SubSeq(s, Len(s) - n + 1, Len(s))

\* the loop of lines 530-535: the entries appended for one topic's articles
RECURSIVE NewEntries(_, _)
NewEntries(articles, existing_titles) ==
    IF articles = <<>> THEN <<>>
    ELSE (IF normalize(Head(articles).title) \notin existing_titles
          THEN <<Entry(Head(articles).title, Head(articles).pubDate)>>
          ELSE <<>>)
         \o NewEntries(Tail(articles), existing_titles)

\* lines 526-536 for one topic of the digest
UpdateKey(h, topic, articles) ==
    LET key == TopicKey(topic)
        old == IF key \in DOMAIN h THEN h[key] ELSE <<>>
        existing_titles == {normalize(old[i].title) : i \in 1..Len(old)}
        new == LastN(old \o NewEntries(articles, existing_titles), HISTORY_CAP)
    IN  [k \in DOMAIN h \cup {key} |-> IF k = key THEN new ELSE h[k]]

\* the loop of lines 525-536
RECURSIVE UpdateHistory(_, _)
UpdateHistory(h, items) ==
    IF items = <<>> THEN h
    ELSE UpdateHistory(UpdateKey(h, Head(items).topic, Head(items).articles),
                       Tail(items))

\* (variant: the comparison with one_month_ago left out)
Fresh_noCutoff(entry, today) == entry.pubDate.ok

\* lines 546-551 for one entry: kept when its date parses and is not before
\* one_month_ago
Fresh(entry, today) ==
    entry.pubDate.ok /\ entry.pubDate.day >= today - RETENTION_DAYS

\* the loop of lines 545-551
RECURSIVE NewArticles(_, _)
NewArticles(entries, today) ==
    IF entries = <<>> THEN <<>>
    ELSE (IF Fresh(Head(entries), today) THEN <<Head(entries)>> ELSE <<>>)
         \o NewArticles(Tail(entries), today)

\* (variant: line 555 left out, so an emptied key stays)
Prune_keepsEmptyKeys(h, today) ==
    [k \in DOMAIN h |-> NewArticles(h[k], today)]

\* lines 543-555: a key whose entries are all dropped is deleted
Prune(h, today) ==
    LET keep == {k \in DOMAIN h : NewArticles(h[k], today) # <<>>}
    IN  [k \in keep |-> NewArticles(h[k], today)]

----------------------------------------------------------------------------
(* The inputs of a run: what history.json holds at first, what the feed    *)
(* returns, what the ranking call's response parses to.                    *)

MaxRuns == 2

Procs == 1..MaxRuns

EmptyHistory == [k \in {} |-> <<>>]

NoFile      == [exists |-> FALSE, valid |-> TRUE,  data |-> EmptyHistory]
CorruptFile == [exists |-> TRUE,  valid |-> FALSE, data |-> EmptyHistory]
File(h)     == [exists |-> TRUE,  valid |-> TRUE,  data |-> h]

tTaxVote  == <<Word(1, "cap"), Word(2, "lower")>>
tTaxVotes == <<Word(1, "lower"), Word(2, "plural")>>
tCourt    == <<Word(3, "lower")>>
tInvented == <<Word(4, "lower")>>
tBanned   == <<Word(9, "cap"), Word(3, "lower")>>
tBlank    == <<>>

\* n entries of pairwise different one-word titles
Filler(n) == [i \in 1..n |-> Entry(<<Word(100 + i, "lower")>>, Date(0))]

StaleHistory ==
    [k \in {"tech"} |-> <<Entry(<<Word(5, "lower")>>, Date(0 - RETENTION_DAYS - 1)),
                          Entry(<<Word(6, "lower")>>, BadDate)>>]
MixedHistory ==
    [k \in {"world_news", "tech"} |->
        IF k = "tech"
        THEN <<Entry(<<Word(5, "lower")>>, Date(0 - RETENTION_DAYS - 1))>>
        ELSE <<Entry(<<Word(6, "lower")>>, BadDate),
               Entry(tCourt, Date(0 - RETENTION_DAYS)),
               Entry(<<Word(7, "lower")>>, Date(0 - RETENTION_DAYS - 1)),
               Entry(<<Word(8, "lower")>>, Date(0))>>]
AlmostFull   == [k \in {"world_news"} |-> Filler(HISTORY_CAP - 1)]
BlankHistory == [k \in {"tech"} |-> <<Entry(tBlank, Date(0))>>]

InitialFiles(ov) ==
    IF ov THEN {NoFile}
    ELSE {NoFile, CorruptFile, File(StaleHistory), File(MixedHistory),
          File(AlmostFull), File(BlankHistory)}

\* the days that pass before an invocation starts
ClockSteps(ov) == IF ov THEN {0} ELSE {0, RETENTION_DAYS + 1}

\* fetch_articles_for_topic (lines 195-237): the articles of the feed that
\* are younger than MAX_ARTICLE_HOURS, each with a date that parses
MakeArticles(topic, titles, today) ==
    [i \in 1..Len(titles) |->
        Article(titles[i], [topic |-> topic, n |-> i], Date(today))]

FetchTitleLists(ov) ==
    IF ov THEN {<<>>, <<tCourt>>}
    ELSE {<<>>, <<tTaxVote, tCourt>>, <<tTaxVotes, tTaxVote>>, <<tBanned, tBlank>>}

\* the mapping the response parses to, as its items in order; or a value
\* that is no mapping (safe_parse_json returns what json.loads returns)
TitleLists(ov) ==
    IF ov THEN {<<tCourt>>}
    ELSE {<<tTaxVotes, tBlank>>, <<tTaxVote, tTaxVotes>>,
          <<tInvented, tCourt, tTaxVote>>}

Mappings(ov) ==
    {<<>>}
    \cup {<<[topic |-> t, titles |-> l]>> : t \in Topics, l \in TitleLists(ov)}
    \cup {m \in {<<[topic |-> t1, titles |-> l1], [topic |-> t2, titles |-> l2]>> :
                    t1 \in Topics, t2 \in Topics,
                    l1 \in TitleLists(ov), l2 \in TitleLists(ov)} :
            m[1].topic # m[2].topic}

Selections(ov) ==
    {[mapping |-> TRUE, items |-> m] : m \in Mappings(ov)}
    \cup {[mapping |-> FALSE, items |-> <<>>]}

----------------------------------------------------------------------------
(* The script, one action per step *)

NoSelection == [mapping |-> TRUE, items |-> <<>>]

\* nothing fetched yet
NoFetch == [t \in Topics |-> <<>>]

\* the entries of a store
AllEntries(h) == UNION {{h[k][i] : i \in 1..Len(h[k])} : k \in DOMAIN h}

\* the entries the update of lines 525-536 appends to h
Appended(h, items) == AllEntries(UpdateHistory(h, items)) \ AllEntries(h)

InitMain(ov) ==
    /\ overlap = ov
    /\ lockfile = FALSE
    /\ historyFile \in InitialFiles(ov)
    /\ now = 0
    /\ pc = [p \in Procs |-> "idle"]
    /\ history = [p \in Procs |-> EmptyHistory]
    /\ loaded = [p \in Procs |-> NoFile]
    /\ full_articles = [p \in Procs |-> <<>>]
    /\ response = [p \in Procs |-> NoSelection]
    /\ digest_titles = [p \in Procs |-> NoSelection]
    /\ digest = [p \in Procs |-> <<>>]
    /\ sendResult = [p \in Procs |-> "none"]
    /\ exitPath = [p \in Procs |-> "none"]
    /\ feed = [p \in Procs |-> NoFetch]
    /\ recorded = {}

\* a step of the script leaves the variables of the other specifications alone
Goto(p, label) ==
    /\ pc' = [pc EXCEPT ![p] = label]
    /\ UNCHANGED <<matchVars, parseVars>>

Exit(p, label, path) ==
    /\ Goto(p, label)
    /\ exitPath' = [exitPath EXCEPT ![p] = path]

InMain(p) == pc[p] \in {"load", "apikey", "fetch", "prioritize", "reconcile",
                        "send", "prune"}

Ended(p) == pc[p] \in {"idle", "done"}

\* lines 22-25: the invocation starts and tests for newsbot.lock
TestLock(p) ==
    /\ pc[p] = "idle"
    /\ \A q \in Procs : q < p => pc[q] # "idle"
    /\ overlap \/ \A q \in Procs \ {p} : Ended(q)
    /\ \E d \in ClockSteps(overlap) : now' = now + d
    /\ IF lockfile
       THEN Exit(p, "done", "already_running")
       ELSE Goto(p, "locking") /\ UNCHANGED exitPath
    /\ UNCHANGED <<lockfile, historyFile, overlap, history, loaded, full_articles,
                   response, digest_titles, digest, sendResult>>
    /\ UNCHANGED <<feed, recorded>>

\* lines 26-28: newsbot.lock is created
CreateLock(p) ==
    /\ pc[p] = "locking"
    /\ lockfile' = TRUE
    /\ Goto(p, "config")
    /\ UNCHANGED <<historyFile, now, overlap, history, loaded, full_articles,
                   response, digest_titles, digest, sendResult, exitPath>>
    /\ UNCHANGED <<feed, recorded>>

\* lines 103-106 and 159-165: the sheets load, or sys.exit(1)
LoadConfig(p) ==
    /\ pc[p] = "config"
    /\ \E ok \in BOOLEAN :
         IF ok THEN Goto(p, "load") /\ UNCHANGED exitPath
         ELSE Exit(p, "done", "config_failed")
    /\ UNCHANGED <<lockfile, historyFile, now, overlap, history, loaded,
                   full_articles, response, digest_titles, digest, sendResult>>
    /\ UNCHANGED <<feed, recorded>>

\* lines 412-416, before the try: json.load raises on a file that is no JSON
LoadHistory(p) ==
    /\ pc[p] = "load"
    /\ IF historyFile.exists /\ ~historyFile.valid
       THEN Exit(p, "done", "history_unreadable") /\ UNCHANGED <<history, loaded>>
       ELSE /\ history' = [history EXCEPT ![p] = historyFile.data]
            /\ loaded' = [loaded EXCEPT ![p] = historyFile]
            /\ Goto(p, "apikey")
            /\ UNCHANGED exitPath
    /\ UNCHANGED <<lockfile, historyFile, now, overlap, full_articles,
                   response, digest_titles, digest, sendResult>>
    /\ UNCHANGED <<feed, recorded>>

\* lines 419-422
CheckApiKey(p) ==
    /\ pc[p] = "apikey"
    /\ \E gemini_api_key \in BOOLEAN :
         IF gemini_api_key THEN Goto(p, "fetch") /\ UNCHANGED exitPath
         ELSE Exit(p, "finally", "no_api_key")
    /\ UNCHANGED <<lockfile, historyFile, now, overlap, history, loaded,
                   full_articles, response, digest_titles, digest, sendResult>>
    /\ UNCHANGED <<feed, recorded>>

\* lines 426-444
Fetch(p) ==
    /\ pc[p] = "fetch"
    /\ \E titles \in [Topics -> FetchTitleLists(overlap)] :
         LET articles == [t \in Topics |-> MakeArticles(t, titles[t], now)]
             r        == FetchLoop(1, articles, history[p])
         IN  /\ feed' = [feed EXCEPT ![p] = articles]
             /\ IF r.raised
                THEN Exit(p, "finally", "exception") /\ UNCHANGED full_articles
                ELSE IF r.full = <<>>
                THEN Exit(p, "finally", "no_headlines") /\ UNCHANGED full_articles
                ELSE /\ full_articles' = [full_articles EXCEPT ![p] = r.full]
                     /\ Goto(p, "prioritize")
                     /\ UNCHANGED exitPath
    /\ UNCHANGED <<lockfile, historyFile, now, overlap, history, loaded,
                   response, digest_titles, digest, sendResult>>
    /\ UNCHANGED recorded

\* line 450: prioritize_with_gemini returns what safe_parse_json returns
Prioritize(p) ==
    /\ pc[p] = "prioritize"
    /\ \E sel \in Selections(overlap) :
         /\ response' = [response EXCEPT ![p] = sel]
         /\ digest_titles' = [digest_titles EXCEPT ![p] = sel]
    /\ Goto(p, "reconcile")
    /\ UNCHANGED <<lockfile, historyFile, now, overlap, history, loaded,
                   full_articles, digest, sendResult, exitPath>>
    /\ UNCHANGED <<feed, recorded>>

\* lines 452-483; digest_titles.items() raises on a value that is no mapping
Reconcile(p) ==
    /\ pc[p] = "reconcile"
    /\ IF ~digest_titles[p].mapping
       THEN Exit(p, "finally", "exception") /\ UNCHANGED <<digest_titles, digest>>
       ELSE LET deduped == DedupDigest(digest_titles[p].items, {})
                d       == Rebuild(deduped, full_articles[p])
            IN  /\ digest_titles' = [digest_titles EXCEPT ![p] =
                                        [mapping |-> TRUE, items |-> deduped]]
                /\ digest' = [digest EXCEPT ![p] = d]
                /\ IF d = <<>>
                   THEN Exit(p, "finally", "empty_digest")
                   ELSE Goto(p, "send") /\ UNCHANGED exitPath
    /\ UNCHANGED <<lockfile, historyFile, now, overlap, history, loaded,
                   full_articles, response, sendResult>>
    /\ UNCHANGED <<feed, recorded>>

\* (variant: the update of lines 525-536 placed before the send)
Send_updatesFirst(p) ==
    /\ pc[p] = "send"
    /\ history' = [history EXCEPT ![p] = UpdateHistory(history[p], digest[p])]
    /\ \E sent \in BOOLEAN :
         /\ sendResult' = [sendResult EXCEPT ![p] = IF sent THEN "ok" ELSE "failed"]
         /\ recorded' = IF sent THEN recorded \cup Appended(history[p], digest[p])
                        ELSE recorded
    /\ Goto(p, "prune")
    /\ UNCHANGED <<lockfile, historyFile, now, overlap, loaded, full_articles,
                   response, digest_titles, digest, exitPath>>
    /\ UNCHANGED feed

\* lines 518-539: the send, and after a send that did not raise the update
Send(p) ==
    /\ pc[p] = "send"
    /\ \E sent \in BOOLEAN :
         IF sent
         THEN /\ sendResult' = [sendResult EXCEPT ![p] = "ok"]
              /\ history' = [history EXCEPT ![p] = UpdateHistory(history[p], digest[p])]
              /\ recorded' = recorded \cup Appended(history[p], digest[p])
         ELSE /\ sendResult' = [sendResult EXCEPT ![p] = "failed"]
              /\ UNCHANGED <<history, recorded>>
    /\ Goto(p, "prune")
    /\ UNCHANGED <<lockfile, historyFile, now, overlap, loaded, full_articles,
                   response, digest_titles, digest, exitPath>>
    /\ UNCHANGED feed

\* lines 541-559: prune, then write history.json
PruneAndSave(p) ==
    /\ pc[p] = "prune"
    /\ history' = [history EXCEPT ![p] = Prune(history[p], now)]
    /\ historyFile' = File(Prune(history[p], now))
    /\ Exit(p, "finally", "completed")
    /\ UNCHANGED <<lockfile, now, overlap, loaded, full_articles, response, digest_titles,
                   digest, sendResult>>
    /\ UNCHANGED <<feed, recorded>>

\* lines 561-571: the finally block removes newsbot.lock and the process ends
Finally(p) ==
    /\ pc[p] = "finally"
    /\ lockfile' = FALSE
    /\ Goto(p, "done")
    /\ history' = [history EXCEPT ![p] = EmptyHistory]
    /\ loaded' = [loaded EXCEPT ![p] = NoFile]
    /\ feed' = [feed EXCEPT ![p] = NoFetch]
    /\ full_articles' = [full_articles EXCEPT ![p] = <<>>]
    /\ response' = [response EXCEPT ![p] = NoSelection]
    /\ digest_titles' = [digest_titles EXCEPT ![p] = NoSelection]
    /\ digest' = [digest EXCEPT ![p] = <<>>]
    /\ sendResult' = [sendResult EXCEPT ![p] = "none"]
    /\ UNCHANGED <<historyFile, now, overlap, exitPath>>
    /\ UNCHANGED recorded

Next ==
    \E p \in Procs :
        \/ TestLock(p)
        \/ CreateLock(p)
        \/ LoadConfig(p)
        \/ LoadHistory(p)
        \/ CheckApiKey(p)
        \/ Fetch(p)
        \/ Prioritize(p)
        \/ Reconcile(p)
        \/ Send(p)
        \/ PruneAndSave(p)
        \/ Finally(p)

IdleMatch ==
    /\ m_title = <<>>
    /\ m_history = EmptyHistory
    /\ m_result = "pending"

\* safe_parse_json not called yet
Unparsed == [stage |-> 0, value |-> <<>>]

\* balance_braces not called yet
Untouched == [called |-> FALSE, text |-> <<>>]

IdleParse ==
    /\ raw = <<>>
    /\ parsed = Unparsed
    /\ balanced = Untouched

Init == InitMain(FALSE) /\ IdleMatch /\ IdleParse

Spec == Init /\ [][Next]_vars

InitLock == InitMain(TRUE) /\ IdleMatch /\ IdleParse

SpecLock == InitLock /\ [][Next]_vars

----------------------------------------------------------------------------
(* is_in_history applied to bounded inputs *)

MaxTitleLen == 5

RECURSIVE SeqsUpTo(_, _)
SeqsUpTo(S, n) ==
    IF n = 0 THEN {<<>>}
    ELSE LET shorter == SeqsUpTo(S, n - 1)
         IN  shorter \cup {Append(t, x) : t \in {u \in shorter : Len(u) = n - 1}, x \in S}

MatchWords == {Word(1, "plural"), Word(2, "cap"), Word(3, "lower"),
               Word(4, "lower"), Word(5, "lower")}

MatchTitles == SeqsUpTo(MatchWords, MaxTitleLen)

hTwo   == <<Word(1, "cap"), Word(2, "plural")>>
hThree == <<Word(3, "lower"), Word(6, "lower"), Word(7, "lower")>>

MatchHistories ==
    { EmptyHistory,
      [k \in {"tech"} |-> <<Entry(tBlank, Date(0))>>],
      [k \in {"tech"} |-> <<Entry(hTwo, Date(0))>>],
      [k \in {"tech", "world_news"} |->
          IF k = "tech" THEN <<Entry(tBlank, Date(0)), Entry(hThree, Date(0))>>
          ELSE <<Entry(hTwo, BadDate)>>] }

IdleMain ==
    /\ InitMain(FALSE)
    /\ historyFile = NoFile

InitMatch ==
    /\ IdleMain /\ IdleParse
    /\ m_title \in MatchTitles
    /\ m_history \in MatchHistories
    /\ m_result = "pending"

\* one call is_in_history(m_title, m_history)
MatchCall ==
    /\ m_result = "pending"
    /\ m_result' = is_in_history(m_title, m_history)
    /\ UNCHANGED <<m_title, m_history, mainVars, parseVars>>

SpecMatch == InitMatch /\ [][MatchCall]_vars

----------------------------------------------------------------------------
(* safe_parse_json, lines 273-365.  A text is the sequence of its          *)
(* characters.  The characters of the texts checked are the JSON           *)
(* punctuation, the two ASCII quotes, space, newline, letters and digits,  *)
(* and six characters written by name: "tick" (the backtick), "ldquo",     *)
(* "rdquo", "lsquo", "rsquo" (the smart quotes of line 318) and "bom"      *)
(* (U+FEFF).  The operators below are exact on such texts.                 *)

\* what str.strip(), the regex class \s and the JSON decoder skip
Whitespace == {" ", "\n", "\t", "\r"}

\* the class of line 330
ControlChars == {"\n", "\t", "\r", "bom"}

Digits == {"1", "2", "3", "4", "5", "6", "7", "8", "9"}

Fence == <<"tick", "tick", "tick">>

Count(text, c) == Cardinality({i \in 1..Len(text) : text[i] = c})

Take(text, n) == SubSeq(text, 1, n)
Drop(text, n) == SubSeq(text, n + 1, Len(text))

HasPrefixAt(text, i, pre) ==
    /\ i >= 1
    /\ i + Len(pre) - 1 <= Len(text)
    /\ \A j \in 1..Len(pre) : text[i + j - 1] = pre[j]

RECURSIVE LStrip(_, _)
LStrip(text, chars) ==
    IF text # <<>> /\ Head(text) \in chars THEN LStrip(Tail(text), chars) ELSE text

RECURSIVE RStrip(_, _)
RStrip(text, chars) ==
    IF text # <<>> /\ text[Len(text)] \in chars
    THEN RStrip(Take(text, Len(text) - 1), chars)
    ELSE text

\* the first position from i on that holds no whitespace
RECURSIVE SkipWs(_, _)
SkipWs(text, i) ==
    IF i <= Len(text) /\ text[i] \in Whitespace THEN SkipWs(text, i + 1) ELSE i

\* strip_wrappers, lines 291-296
strip_wrappers(text) ==
    LET t1 == RStrip(LStrip(text, Whitespace), Whitespace)
        t2 == IF HasPrefixAt(t1, 1, Fence)
              THEN LET a == Drop(t1, 3)
                       b == IF HasPrefixAt(a, 1, <<"j", "s", "o", "n">>)
                            THEN Drop(a, 4) ELSE a
                   IN  LStrip(b, Whitespace)
              ELSE t1
    IN  IF HasPrefixAt(t2, Len(t2) - 2, Fence)
        THEN RStrip(Take(t2, Len(t2) - 3), Whitespace)
        ELSE t2

\* text.rstrip(closer)[:-excess], lines 305 and 312, for excess > 0
TrimExcess(text, closer, excess) ==
    LET stripped == RStrip(text, {closer})
    IN  Take(stripped, IF Len(stripped) > excess THEN Len(stripped) - excess ELSE 0)

\* lines 300-305, and lines 307-312 with the brackets
BalancePair(text, opener, closer) ==
    LET opened == Count(text, opener)
        closed == Count(text, closer)
    IN  IF opened > closed
        THEN text \o [i \in 1..(opened - closed) |-> closer]
        ELSE IF closed > opened
        THEN TrimExcess(text, closer, closed - opened)
        ELSE text

\* balance_braces, lines 298-314
balance_braces(text) == BalancePair(BalancePair(text, "{", "}"), "[", "]")

\* line 318
SmartQuotes(text) ==
    [i \in 1..Len(text) |->
        IF text[i] \in {"ldquo", "rdquo"} THEN "\""
        ELSE IF text[i] \in {"lsquo", "rsquo"} THEN "'"
        ELSE text[i]]

\* line 321: re.sub(r",\s*([\]}])", r"\1", text), from position i on
RECURSIVE TrailingCommas(_, _)
TrailingCommas(text, i) ==
    IF i > Len(text) THEN <<>>
    ELSE LET j == SkipWs(text, i + 1)
         IN  IF text[i] = "," /\ j <= Len(text) /\ text[j] \in {"]", "}"}
             THEN <<text[j]>> \o TrailingCommas(text, j + 1)
             ELSE <<text[i]>> \o TrailingCommas(text, i + 1)

\* the first position from i on that holds one of the characters, or 0
RECURSIVE Find(_, _, _)
Find(text, i, chars) ==
    IF i > Len(text) THEN 0
    ELSE IF text[i] \in chars THEN i
    ELSE Find(text, i + 1, chars)

\* line 324: re.sub(r"(?<=[:\s])'([^']*?)'", r'"\1"', text), from position i on
RECURSIVE SingleQuotes(_, _)
SingleQuotes(text, i) ==
    IF i > Len(text) THEN <<>>
    ELSE LET j == Find(text, i + 1, {"'"})
         IN  IF /\ text[i] = "'"
                /\ i > 1
                /\ text[i - 1] \in {":"} \cup Whitespace
                /\ j # 0
             THEN <<"\"">> \o SubSeq(text, i + 1, j - 1) \o <<"\"">>
                  \o SingleQuotes(text, j + 1)
             ELSE <<text[i]>> \o SingleQuotes(text, i + 1)

\* line 327: re.sub(r'(\[[^\[\]]*?)\s*\}', r'\1]', text), from position i on
RECURSIVE BraceToBracket(_, _)
BraceToBracket(text, i) ==
    IF i > Len(text) THEN <<>>
    ELSE LET k == Find(text, i + 1, {"[", "]", "}"})
         IN  IF text[i] = "[" /\ k # 0 /\ text[k] = "}"
             THEN RStrip(SubSeq(text, i, k - 1), Whitespace) \o <<"]">>
                  \o BraceToBracket(text, k + 1)
             ELSE <<text[i]>> \o BraceToBracket(text, i + 1)

\* line 330
StripControl(text) ==
    LET Printable(c) == c \notin ControlChars
    IN  SelectSeq(text, Printable)

\* fix_common_json_errors, lines 316-335
fix_common_json_errors(text) ==
    balance_braces(
        StripControl(
            BraceToBracket(
                SingleQuotes(
                    TrailingCommas(SmartQuotes(text), 1), 1), 1)))

----------------------------------------------------------------------------
(* The two decoders safe_parse_json calls, json.loads (lines 287, 344, 360) *)
(* and ast.literal_eval (line 350), as recursive-descent readers of a text. *)
(* They are exact on texts of the characters above: no text checked holds   *)
(* a backslash, a sign, a dot, a parenthesis or the digit 0, and no number  *)
(* is long enough to lose precision as a float.                             *)

Letters ==
    {"a", "b", "c", "d", "e", "f", "g", "h", "i", "j", "k", "l", "m",
     "n", "o", "p", "q", "r", "s", "t", "u", "v", "w", "x", "y", "z",
     "A", "B", "C", "D", "E", "F", "G", "H", "I", "J", "K", "L", "M",
     "N", "O", "P", "Q", "R", "S", "T", "U", "V", "W", "X", "Y", "Z"}

NonAscii == {"ldquo", "rdquo", "lsquo", "rsquo", "bom"}

\* a decoded value: a scalar with the text that denotes it, or a container
Scalar(kind, text) == [kind |-> kind, text |-> text]
Container(kind, items) == [kind |-> kind, items |-> items]
Pair(k, v) == [key |-> k, val |-> v]

NoValue == Scalar("undefined", <<>>)

\* the outcome of reading one value: where the reading stopped, and the value
Failed == [ok |-> FALSE, pos |-> 0, val |-> NoValue]
Ok(pos, val) == [ok |-> TRUE, pos |-> pos, val |-> val]

\* Python's ==/hash on keys: equal scalars, and True == 1
KeyEq(a, b) ==
    \/ a = b
    \/ {a, b} = {Scalar("int", <<"1">>), Scalar("bool", <<"T", "r", "u", "e">>)}

\* d[k] = v: a key already present keeps its place and takes the new value
Put(pairs, k, v) ==
    IF \E n \in DOMAIN pairs : KeyEq(pairs[n].key, k)
    THEN [n \in DOMAIN pairs |->
            IF KeyEq(pairs[n].key, k) THEN Pair(pairs[n].key, v) ELSE pairs[n]]
    ELSE Append(pairs, Pair(k, v))

\* s.add(v)
Add(items, v) ==
    IF \E n \in DOMAIN items : KeyEq(items[n], v) THEN items ELSE Append(items, v)

Hashable(v) == v.kind \notin {"list", "dict", "set"}

\* the first position from i on that holds none of the characters
RECURSIVE Span(_, _, _)
Span(text, i, chars) ==
    IF i <= Len(text) /\ text[i] \in chars THEN Span(text, i + 1, chars) ELSE i

At(text, i, chars) == i <= Len(text) /\ text[i] \in chars

\* an integer, or a float written with an exponent, starting at the digit at i
Number(text, i) ==
    LET Exponent(d, f) ==
            Ok(f, Scalar("float", SubSeq(text, i, d - 1) \o <<"e">>
                                   \o SubSeq(text, d + 1, f - 1)))
        Mantissa(d) ==
            IF At(text, d, {"e", "E"}) /\ At(text, d + 1, Digits)
            THEN Exponent(d, Span(text, d + 1, Digits))
            ELSE Ok(d, Scalar("int", SubSeq(text, i, d - 1)))
    IN  Mantissa(Span(text, i, Digits))

\* json.decoder.scanstring, strict: ends at the next double quote, and a
\* control character before it is an error
JsonString(text, i) ==
    LET Ends(j) ==
            IF j # 0 /\ text[j] = "\""
            THEN Ok(j + 1, Scalar("str", SubSeq(text, i + 1, j - 1)))
            ELSE Failed
    IN  Ends(Find(text, i + 1, {"\"", "\n", "\t", "\r"}))

RECURSIVE JsonValue(_, _)
RECURSIVE JsonMembers(_, _, _)
RECURSIVE JsonElements(_, _, _)

\* json.scanner scan_once at position i
JsonValue(text, i) ==
    IF i > Len(text) THEN Failed
    ELSE IF text[i] = "\"" THEN JsonString(text, i)
    ELSE IF text[i] = "{"
    THEN LET Object(j) ==
                 IF At(text, j, {"}"}) THEN Ok(j + 1, Container("dict", <<>>))
                 ELSE JsonMembers(text, j, <<>>)
         IN  Object(SkipWs(text, i + 1))
    ELSE IF text[i] = "["
    THEN LET Array(j) ==
                 IF At(text, j, {"]"}) THEN Ok(j + 1, Container("list", <<>>))
                 ELSE JsonElements(text, j, <<>>)
         IN  Array(SkipWs(text, i + 1))
    ELSE IF HasPrefixAt(text, i, <<"n", "u", "l", "l">>)
    THEN Ok(i + 4, Scalar("None", <<>>))
    ELSE IF HasPrefixAt(text, i, <<"t", "r", "u", "e">>)
    THEN Ok(i + 4, Scalar("bool", <<"T", "r", "u", "e">>))
    ELSE IF HasPrefixAt(text, i, <<"f", "a", "l", "s", "e">>)
    THEN Ok(i + 5, Scalar("bool", <<"F", "a", "l", "s", "e">>))
    ELSE IF text[i] \in Digits THEN Number(text, i)
    ELSE IF HasPrefixAt(text, i, <<"N", "a", "N">>)
    THEN Ok(i + 3, Scalar("float", <<"N", "a", "N">>))
    ELSE IF HasPrefixAt(text, i, <<"I", "n", "f", "i", "n", "i", "t", "y">>)
    THEN Ok(i + 8, Scalar("float", <<"I", "n", "f", "i", "n", "i", "t", "y">>))
    ELSE Failed

\* json.decoder.JSONObject from the key at i on
JsonMembers(text, i, pairs) ==
    LET Rest(n, all) ==
            IF At(text, n, {"}"}) THEN Ok(n + 1, Container("dict", all))
            ELSE IF At(text, n, {","})
            THEN JsonMembers(text, SkipWs(text, n + 1), all)
            ELSE Failed
        AfterValue(k, v) ==
            IF ~v.ok THEN Failed
            ELSE Rest(SkipWs(text, v.pos), Put(pairs, k.val, v.val))
        AfterColon(k, c) ==
            IF ~At(text, c, {":"}) THEN Failed
            ELSE AfterValue(k, JsonValue(text, SkipWs(text, c + 1)))
        AfterKey(k) ==
            IF ~k.ok THEN Failed ELSE AfterColon(k, SkipWs(text, k.pos))
    IN  IF ~At(text, i, {"\""}) THEN Failed
        ELSE AfterKey(JsonString(text, i))

\* json.decoder.JSONArray from the element at i on
JsonElements(text, i, items) ==
    LET Rest(n, all) ==
            IF At(text, n, {"]"}) THEN Ok(n + 1, Container("list", all))
            ELSE IF At(text, n, {","})
            THEN JsonElements(text, SkipWs(text, n + 1), all)
            ELSE Failed
        AfterValue(v) ==
            IF ~v.ok THEN Failed
            ELSE Rest(SkipWs(text, v.pos), Append(items, v.val))
    IN  AfterValue(JsonValue(text, i))

\* json.loads: one value, whitespace around it, nothing else
json_loads(text) ==
    LET Whole(v) ==
            IF v.ok /\ SkipWs(text, v.pos) > Len(text) THEN v ELSE Failed
    IN  IF At(text, 1, {"bom"}) THEN Failed
        ELSE Whole(JsonValue(text, SkipWs(text, 1)))

\* the next position from i on where pre starts, or 0
RECURSIVE FindSeq(_, _, _)
FindSeq(text, i, pre) ==
    IF i + Len(pre) - 1 > Len(text) THEN 0
    ELSE IF HasPrefixAt(text, i, pre) THEN i
    ELSE FindSeq(text, i + 1, pre)

Blank == {" ", "\t"}
Quotes == {"'", "\""}
StrPrefixes == {<<>>, <<"r">>, <<"R">>, <<"u">>, <<"U">>}
BytesPrefixes ==
    {<<"b">>, <<"B">>, <<"b", "r">>, <<"b", "R">>, <<"B", "r">>, <<"B", "R">>,
     <<"r", "b">>, <<"r", "B">>, <<"R", "b">>, <<"R", "B">>}

\* where the name that starts at i ends
NameEnd(text, i) == Span(text, i, Letters \cup Digits)

\* a string literal, with or without a prefix, starts at i
IsStringStart(text, i) ==
    LET Opens(open) ==
            /\ At(text, open, Quotes)
            /\ SubSeq(text, i, open - 1) \in StrPrefixes \cup BytesPrefixes
    IN  Opens(NameEnd(text, i))

\* one string literal: quoted once or three times, ended by the same quotes
PyStringToken(text, i) ==
    LET Literal(kind, start, close, width) ==
            IF close = 0 THEN Failed
            ELSE IF kind = "bytes"
                    /\ \E n \in start..(close - 1) : text[n] \in NonAscii
            THEN Failed
            ELSE Ok(close + width, Scalar(kind, SubSeq(text, start, close - 1)))
        Quoted(kind, open, q) ==
            IF HasPrefixAt(text, open, <<q, q, q>>)
            THEN Literal(kind, open + 3, FindSeq(text, open + 3, <<q, q, q>>), 3)
            ELSE Literal(kind, open + 1, Find(text, open + 1, {q}), 1)
        Prefixed(open) ==
            Quoted(IF SubSeq(text, i, open - 1) \in BytesPrefixes
                   THEN "bytes" ELSE "str",
                   open, text[open])
    IN  Prefixed(NameEnd(text, i))

\* adjacent string literals make one string; str and bytes do not mix
RECURSIVE PyStrings(_, _, _, _)
PyStrings(text, i, kind, acc) ==
    LET Rest(tok, n) ==
            IF IsStringStart(text, n)
            THEN PyStrings(text, n, tok.val.kind, acc \o tok.val.text)
            ELSE Ok(tok.pos, Scalar(tok.val.kind, acc \o tok.val.text))
        AfterToken(tok) ==
            IF ~tok.ok THEN Failed
            ELSE IF kind # "" /\ tok.val.kind # kind THEN Failed
            ELSE Rest(tok, Span(text, tok.pos, Blank))
    IN  AfterToken(PyStringToken(text, i))

\* a number, with j for a complex one; a letter or digit must not follow
PyNumber(text, i) ==
    LET Delimited(num) ==
            IF At(text, num.pos, Letters \cup Digits) THEN Failed ELSE num
        Suffixed(real) ==
            IF At(text, real.pos, {"j", "J"})
            THEN Delimited(Ok(real.pos + 1,
                          Scalar("complex", real.val.text \o <<"j">>)))
            ELSE Delimited(real)
    IN  Suffixed(Number(text, i))

\* the constants literal_eval accepts; any other name is refused
PyName(text, i) ==
    LET Named(name, end) ==
            IF name \in {<<"T", "r", "u", "e">>, <<"F", "a", "l", "s", "e">>}
            THEN Ok(end, Scalar("bool", name))
            ELSE IF name = <<"N", "o", "n", "e">>
            THEN Ok(end, Scalar("None", <<>>))
            ELSE Failed
        Ends(end) == Named(SubSeq(text, i, end - 1), end)
    IN  Ends(NameEnd(text, i))

RECURSIVE PyExpr(_, _)
RECURSIVE PyList(_, _, _)
RECURSIVE PyDict(_, _, _)
RECURSIVE PySet(_, _, _)

\* one expression starting at i
PyExpr(text, i) ==
    IF i > Len(text) THEN Failed
    ELSE IF IsStringStart(text, i) THEN PyStrings(text, i, "", <<>>)
    ELSE IF text[i] \in Digits THEN PyNumber(text, i)
    ELSE IF text[i] \in Letters THEN PyName(text, i)
    ELSE IF text[i] = "[" THEN PyList(text, Span(text, i + 1, Blank), <<>>)
    ELSE IF text[i] = "{"
    THEN LET Display(j, first) ==
                 IF ~first.ok THEN Failed
                 ELSE IF At(text, Span(text, first.pos, Blank), {":"})
                 THEN PyDict(text, j, <<>>)
                 ELSE PySet(text, j, <<>>)
             Braces(j) ==
                 IF At(text, j, {"}"}) THEN Ok(j + 1, Container("dict", <<>>))
                 ELSE Display(j, PyExpr(text, j))
         IN  Braces(Span(text, i + 1, Blank))
    ELSE Failed

\* the rest of a list display: an element or the closing bracket at i
PyList(text, i, items) ==
    LET Rest(n, all) ==
            IF At(text, n, {"]"}) THEN Ok(n + 1, Container("list", all))
            ELSE IF At(text, n, {","})
            THEN PyList(text, Span(text, n + 1, Blank), all)
            ELSE Failed
        AfterElement(e) ==
            IF ~e.ok THEN Failed
            ELSE Rest(Span(text, e.pos, Blank), Append(items, e.val))
    IN  IF At(text, i, {"]"}) THEN Ok(i + 1, Container("list", items))
        ELSE AfterElement(PyExpr(text, i))

\* the rest of a dict display: a key or the closing brace at i
PyDict(text, i, pairs) ==
    LET Rest(n, all) ==
            IF At(text, n, {"}"}) THEN Ok(n + 1, Container("dict", all))
            ELSE IF At(text, n, {","})
            THEN PyDict(text, Span(text, n + 1, Blank), all)
            ELSE Failed
        AfterValue(k, v) ==
            IF ~v.ok \/ ~Hashable(k.val) THEN Failed
            ELSE Rest(Span(text, v.pos, Blank), Put(pairs, k.val, v.val))
        AfterColon(k, c) ==
            IF ~At(text, c, {":"}) THEN Failed
            ELSE AfterValue(k, PyExpr(text, Span(text, c + 1, Blank)))
        AfterKey(k) ==
            IF ~k.ok THEN Failed ELSE AfterColon(k, Span(text, k.pos, Blank))
    IN  IF At(text, i, {"}"}) THEN Ok(i + 1, Container("dict", pairs))
        ELSE AfterKey(PyExpr(text, i))

\* the rest of a set display: an element or the closing brace at i
PySet(text, i, items) ==
    LET Rest(n, all) ==
            IF At(text, n, {"}"}) THEN Ok(n + 1, Container("set", all))
            ELSE IF At(text, n, {","})
            THEN PySet(text, Span(text, n + 1, Blank), all)
            ELSE Failed
        AfterElement(e) ==
            IF ~e.ok THEN Failed
            ELSE IF ~Hashable(e.val) THEN Failed
            ELSE Rest(Span(text, e.pos, Blank), Add(items, e.val))
    IN  IF At(text, i, {"}"}) THEN Ok(i + 1, Container("set", items))
        ELSE AfterElement(PyExpr(text, i))

\* the rest of a tuple written without parentheses
RECURSIVE PyTuple(_, _, _)
PyTuple(text, i, items) ==
    LET Rest(n, all) ==
            IF n > Len(text) THEN Ok(n, Container("tuple", all))
            ELSE IF At(text, n, {","})
            THEN PyTuple(text, Span(text, n + 1, Blank), all)
            ELSE Failed
        AfterElement(e) ==
            IF ~e.ok THEN Failed
            ELSE Rest(Span(text, e.pos, Blank), Append(items, e.val))
    IN  IF i > Len(text) THEN Ok(i, Container("tuple", items))
        ELSE AfterElement(PyExpr(text, i))

\* ast.literal_eval: the whole text is one expression, or a tuple of them
literal_eval(text) ==
    LET Rest(t, first, n) ==
            IF n > Len(t) THEN first
            ELSE IF At(t, n, {","})
            THEN PyTuple(t, Span(t, n + 1, Blank), <<first.val>>)
            ELSE Failed
        AfterFirst(t, first) ==
            IF ~first.ok THEN Failed
            ELSE Rest(t, first, Span(t, first.pos, Blank))
        Stripped(t) == AfterFirst(t, PyExpr(t, 1))
    IN  Stripped(LStrip(text, Blank))

\* the last position that holds the character, or 0
RECURSIVE FindLast(_, _, _)
FindLast(text, i, c) ==
    IF i < 1 THEN 0
    ELSE IF text[i] = c THEN i
    ELSE FindLast(text, i - 1, c)

\* line 356: re.search(r"\{.*\}", cleaned, re.DOTALL), the span matched
BraceSpan(text) ==
    LET Between(first, last) ==
            IF first # 0 /\ last > first THEN SubSeq(text, first, last) ELSE <<>>
    IN  Between(Find(text, 1, {"{"}), FindLast(text, Len(text), "}"))

Returned(stage, value) == [stage |-> stage, value |-> value]

\* lines 355-362: the span matched, cleaned again and decoded
Salvage(span) ==
    IF span = <<>> THEN Failed ELSE json_loads(fix_common_json_errors(span))

\* the first attempt that succeeds returns; line 365 when none does
Cascade(attempts) ==
    LET Succeeded == {n \in DOMAIN attempts : attempts[n].ok}
        First(n) == Returned(n, attempts[n].val)
    IN  IF Succeeded = {}
        THEN Returned(Len(attempts) + 1, Container("dict", <<>>))
        ELSE First(CHOOSE n \in Succeeded : \A m \in Succeeded : n <= m)

\* safe_parse_json, lines 273-365: the stage that returned, and what it returned
safe_parse_json(text) ==
    LET Attempts(cleaned) ==
            <<json_loads(text), json_loads(cleaned), literal_eval(cleaned),
              Salvage(BraceSpan(cleaned))>>
    IN  Cascade(Attempts(fix_common_json_errors(strip_wrappers(text))))

----------------------------------------------------------------------------
(* safe_parse_json applied to bounded texts *)

MaxTextLen == 4

ParseChars == {"{", "}", "[", "]", "\"", "'", ":", ",", " ", "\n", "tick", "a", "1"}

\* the shape the prompt asks for
textWellFormed ==
    <<"{", "\"", "A", "\"", ":", " ", "[", "\"", "x", "\"", "]", "}">>

\* the same inside a Markdown fence
textFenced ==
    <<"tick", "tick", "tick", "j", "s", "o", "n", "\n", "{", "\"", "A",
      "\"", ":", " ", "[", "\"", "x", "\"", "]", "}", "\n", "tick", "tick",
      "tick">>

\* single quotes and a trailing comma
textPythonStyle ==
    <<"tick", "tick", "tick", "j", "s", "o", "n", "\n", "{", "'", "A", "'",
      ":", " ", "[", "'", "x", "'", "]", ",", "}", "\n", "tick", "tick",
      "tick">>

\* smart quotes
textSmartQuotes ==
    <<"{", "ldquo", "A", "rdquo", ":", " ", "[", "ldquo", "x", "rdquo",
      "]", "}">>

\* the closing brace is missing
textUnclosed ==
    <<"{", "\"", "A", "\"", ":", " ", "[", "\"", "x", "\"", "]">>

\* an object inside prose
textEmbedded ==
    <<"H", "e", "r", "e", ":", " ", "{", "\"", "A", "\"", ":", " ", "[",
      "\"", "x", "\"", "]", "}", " ", "o", "k">>

\* no structure at all
textProse ==
    <<"n", "o", "t", " ", "j", "s", "o", "n">>

\* a list of titles without topics
textList ==
    <<"[", "\"", "x", "\"", "]">>

\* the JSON null
textNull ==
    <<"n", "u", "l", "l">>

ResponseTexts ==
    {textWellFormed, textFenced, textPythonStyle, textSmartQuotes, textUnclosed,
     textEmbedded, textProse, textList, textNull}

ParseTexts == SeqsUpTo(ParseChars, MaxTextLen) \cup ResponseTexts

InitParse ==
    /\ IdleMain /\ IdleMatch
    /\ raw \in ParseTexts
    /\ parsed = Unparsed
    /\ balanced = Untouched

\* one call safe_parse_json(raw)
ParseCall ==
    /\ parsed.stage = 0
    /\ parsed' = safe_parse_json(raw)
    /\ UNCHANGED <<raw, balanced, mainVars, matchVars>>

SpecParse == InitParse /\ [][ParseCall]_vars

----------------------------------------------------------------------------
(* balance_braces applied to the same bounded texts *)

\* one call balance_braces(raw)
BalanceCall ==
    /\ ~balanced.called
    /\ balanced' = [called |-> TRUE, text |-> balance_braces(raw)]
    /\ UNCHANGED <<raw, parsed, mainVars, matchVars>>

SpecBalance == InitParse /\ [][BalanceCall]_vars

----------------------------------------------------------------------------
(* The claims *)

Range(s) == {s[i] : i \in 1..Len(s)}

\* full_articles[topic] of invocation p, as a set
CandidatesOf(p, topic) == Range(Get(full_articles[p], topic, "articles"))

\* the title matches, by normalized form, no candidate of the topic
Unmatched(p, topic, title) ==
    \A a \in CandidatesOf(p, topic) : normalize(a.title) # normalize(title)

\* C1. Hallucination guard: every article of the digest under a topic is one
\* of that topic's candidates of this run; a selected title that matches, by
\* normalized form, no candidate of its topic is in the digest under that
\* topic in no form; and after the update every entry of the history is one
\* that was loaded or is the title and date of a candidate.
C1_HallucinationGuard ==
    \A p \in Procs :
        /\ \A i \in 1..Len(digest[p]) :
              Range(digest[p][i].articles) \subseteq CandidatesOf(p, digest[p][i].topic)
        /\ \A i \in 1..Len(response[p].items) :
              \A title \in Range(response[p].items[i].titles) :
                 Unmatched(p, response[p].items[i].topic, title) =>
                    \A j \in 1..Len(digest[p]) :
                       digest[p][j].topic = response[p].items[i].topic =>
                          \A a \in Range(digest[p][j].articles) :
                             normalize(a.title) # normalize(title)
        /\ pc[p] \in {"prune", "finally"} =>
              \A k \in DOMAIN history[p] : \A e \in Range(history[p][k]) :
                 \/ k \in DOMAIN loaded[p].data /\ e \in Range(loaded[p].data[k])
                 \/ \E t \in Topics : \E a \in CandidatesOf(p, t) :
                       TopicKey(t) = k /\ e = Entry(a.title, a.pubDate)

\* a digest was sent and recorded although the selection held a title that
\* matches no candidate of its topic
C1_Witness ==
    \E p \in Procs :
        /\ pc[p] = "prune" /\ sendResult[p] = "ok"
        /\ \E i \in 1..Len(response[p].items) :
              \E title \in Range(response[p].items[i].titles) :
                 Unmatched(p, response[p].items[i].topic, title)

NormTitlesOf(item) == {normalize(t) : t \in Range(item.titles)}

\* the item is the first of the selection that holds the normalized title
IsFirstWith(items, i, n) ==
    /\ n \in NormTitlesOf(items[i])
    /\ \A j \in 1..(i - 1) : n \notin NormTitlesOf(items[j])

\* C2. Global uniqueness: no two articles of the digest, under one topic or
\* two, have the same normalized title, and an article is under the first
\* topic of the selection, in its order, that holds its normalized title.
C2_GlobalUniqueness ==
    \A p \in Procs :
        LET d == digest[p]
        IN  \A i \in 1..Len(d) : \A a \in 1..Len(d[i].articles) :
              /\ \A j \in 1..Len(d) : \A b \in 1..Len(d[j].articles) :
                    normalize(d[i].articles[a].title) = normalize(d[j].articles[b].title)
                       => (i = j /\ a = b)
              /\ \E x \in 1..Len(response[p].items) :
                    /\ response[p].items[x].topic = d[i].topic
                    /\ IsFirstWith(response[p].items, x, normalize(d[i].articles[a].title))

\* the selection holds one normalized title under two topics, both of which
\* have a candidate of that title, and the digest is built
C2_Witness ==
    \E p \in Procs :
        /\ pc[p] = "send"
        /\ \E i \in 1..Len(response[p].items) : \E j \in 1..Len(response[p].items) :
              /\ i < j
              /\ \E t1 \in Range(response[p].items[i].titles) :
                 \E t2 \in Range(response[p].items[j].titles) :
                    /\ normalize(t1) = normalize(t2)
                    /\ ~Unmatched(p, response[p].items[i].topic, t1)
                    /\ ~Unmatched(p, response[p].items[j].topic, t2)

\* the value is a mapping (a dict), whatever its keys and values
IsMapping(value) == value.kind = "dict"

\* C3. safe_parse_json never fails: for every text it returns, without
\* raising, a mapping from topic name to list of title strings; it never
\* returns a value that is not a mapping (a list, a number, a string, null),
\* and it returns the empty mapping when every stage fails.
C3_AlwaysAMapping ==
    parsed.stage # 0 => IsMapping(parsed.value)

\* C4. A candidate title with no token is reported as not in the history,
\* whatever the history holds, and the call does not raise.
C4_EmptyCandidateNotDuplicate ==
    (m_result # "pending" /\ Tokens(m_title) = {}) => m_result = "false"

\* the history holds, under some key, an entry with tokens that shares at
\* least 2/5 of the candidate's tokens
SomeEntryOverlaps(title, h) ==
    \E k \in DOMAIN h : \E i \in 1..Len(h[k]) :
        LET T == Tokens(title)
            H == Tokens(h[k][i].title)
        IN  H # {} /\ 5 * Cardinality(T \cap H) >= 2 * Cardinality(T)

\* C5. For a candidate with tokens, is_in_history returns true exactly when
\* some entry under any key has tokens and shares at least 0.4 of the
\* candidate's tokens (2 of 5 is enough, anything less is not).
C5_ThresholdRule ==
    (m_result # "pending" /\ Tokens(m_title) # {}) =>
        /\ m_result \in {"true", "false"}
        /\ m_result = "true" <=> SomeEntryOverlaps(m_title, m_history)

\* a candidate of five tokens found to be a duplicate with no entry sharing
\* more than two of them
C5_Witness ==
    /\ m_result = "true"
    /\ Cardinality(Tokens(m_title)) = 5
    /\ \A k \in DOMAIN m_history : \A i \in 1..Len(m_history[k]) :
          Cardinality(Tokens(m_title) \cap Tokens(m_history[k][i].title)) <= 2

\* the entries of s whose date parses and is at most 30 days before today
Retained(s, today) ==
    LET Keep(e) == e.pubDate.ok /\ today - e.pubDate.day <= 30
    IN  SelectSeq(s, Keep)

\* h with every sequence cut to its retained entries and the emptied keys gone
Retention(h, today) ==
    [k \in {x \in DOMAIN h : Retained(h[x], today) # <<>>} |-> Retained(h[k], today)]

\* C6 as claimed. When the send raises or is not attempted, history.json at
\* the end of the run is the one that was loaded.
C6_UnchangedWithoutSend ==
    \A p \in Procs :
        (pc[p] = "finally" /\ sendResult[p] # "ok") => historyFile = loaded[p]

\* C6 as amended. Entries are appended only after a send that succeeded: a
\* run that attempts no send leaves history.json as loaded, and a run whose
\* send raises appends nothing but still prunes, so it writes the loaded
\* store less its stale and undatable entries.
C6_AppendOnlyAfterSend ==
    \A p \in Procs :
        pc[p] = "finally" =>
            /\ sendResult[p] = "none" => historyFile = loaded[p]
            /\ sendResult[p] = "failed" =>
                  historyFile = File(Retention(loaded[p].data, now))

\* a send raised and the store written differs from the store loaded
C6_Witness ==
    \E p \in Procs :
        /\ pc[p] = "finally" /\ sendResult[p] = "failed"
        /\ historyFile # loaded[p]
        /\ loaded[p].exists

\* no entry of the store is dated more than 30 days before today
NoStaleEntry(h, today) ==
    \A k \in DOMAIN h : \A e \in Range(h[k]) :
        e.pubDate.ok => today - e.pubDate.day <= 30

\* C7 as claimed. At the end of every run that got past the configuration,
\* history.json holds no entry older than 30 days.
C7_PrunedOnEveryRun ==
    \A p \in Procs :
        pc[p] = "finally" => NoStaleEntry(historyFile.data, now)

\* C7 as amended. At the end of every run that reached the send, whether it
\* succeeded or raised, history.json has been rewritten and holds no entry
\* older than 30 days; a run that ends before the send (no API key, no
\* headline, empty digest, an exception) leaves history.json as it was.
C7_PrunedWhenSendReached ==
    \A p \in Procs :
        pc[p] = "finally" =>
            IF exitPath[p] = "completed"
            THEN historyFile.exists /\ NoStaleEntry(historyFile.data, now)
            ELSE historyFile = loaded[p]

\* a run that reached the send ends, having loaded a stale entry
C7_Witness ==
    \E p \in Procs :
        /\ pc[p] = "finally" /\ exitPath[p] = "completed"
        /\ ~NoStaleEntry(loaded[p].data, now)

\* what lines 525-536 are to leave under the key of the digest's i-th topic:
\* the entries loaded, then the articles whose normalized title none of them has
ExpectedUnderKey(p, i) ==
    LET key   == TopicKey(digest[p][i].topic)
        prior == IF key \in DOMAIN loaded[p].data THEN loaded[p].data[key] ELSE <<>>
        known == {normalize(e.title) : e \in Range(prior)}
        IsNew(a) == normalize(a.title) \notin known
        fresh == SelectSeq(digest[p][i].articles, IsNew)
    IN  prior \o [j \in 1..Len(fresh) |-> Entry(fresh[j].title, fresh[j].pubDate)]

\* C8. After the update that follows a successful send, the key of every
\* topic of the digest holds at most 40 entries: the last 40 of the prior
\* entries followed by the appended ones, an article whose normalized title
\* an existing entry has not being appended.
C8_CapAndAppend ==
    \A p \in Procs :
        (pc[p] = "prune" /\ sendResult[p] = "ok") =>
            \A i \in 1..Len(digest[p]) :
                LET key == TopicKey(digest[p][i].topic)
                    all == ExpectedUnderKey(p, i)
                IN  /\ key \in DOMAIN history[p]
                    /\ Len(history[p][key]) <= 40
                    /\ history[p][key] =
                          IF Len(all) <= 40 THEN all
                          ELSE SubSeq(all, Len(all) - 39, Len(all))

\* the update left more than 40 entries to cut
C8_Witness ==
    \E p \in Procs :
        /\ pc[p] = "prune" /\ sendResult[p] = "ok"
        /\ \E i \in 1..Len(digest[p]) : Len(ExpectedUnderKey(p, i)) > 40

\* an article was not appended because an entry already had its normalized title
C8_WitnessSkipped ==
    \E p \in Procs :
        /\ pc[p] = "prune" /\ sendResult[p] = "ok"
        /\ \E i \in 1..Len(digest[p]) :
              LET key == TopicKey(digest[p][i].topic)
              IN  /\ key \in DOMAIN loaded[p].data
                  /\ Len(ExpectedUnderKey(p, i)) <
                        Len(loaded[p].data[key]) + Len(digest[p][i].articles)

\* C9. The prune step keeps, in their order, exactly the entries whose date
\* parses and is at most 30 days old, deletes the keys left empty and writes
\* the result; no history.json ever holds an empty sequence.
C9_PruneKeepsFresh ==
    /\ [][\A p \in Procs :
            (pc[p] = "prune" /\ pc'[p] = "finally") =>
                /\ history'[p] = Retention(history[p], now)
                /\ historyFile' = File(history'[p])]_vars
    /\ [](\A k \in DOMAIN historyFile.data : historyFile.data[k] # <<>>)

\* a prune dropped an undatable entry and deleted a key
C9_Witness ==
    \E p \in Procs :
        /\ pc[p] = "finally" /\ exitPath[p] = "completed"
        /\ \E k \in DOMAIN loaded[p].data :
              /\ k \notin DOMAIN history[p]
        /\ \E k \in DOMAIN loaded[p].data : \E e \in Range(loaded[p].data[k]) :
              ~e.pubDate.ok

\* C10. No two invocations are between loading and persisting history.json
\* at once.
C10_MutualExclusion ==
    \A p \in Procs : \A q \in Procs \ {p} : ~(InMain(p) /\ InMain(q))

\* C11. balance_braces removes nothing but excess closers and leaves the
\* braces balanced: with k more "}" than "{" (or "]" than "[") exactly k
\* trailing closers are removed and nothing else, missing closers are
\* appended, so after the pass the text holds as many "{" as "}", for
\* every text.
C11_BalancedAfterPass ==
    balanced.called =>
        /\ Count(balanced.text, "{") = Count(balanced.text, "}")
        /\ \A c \in ParseChars \ {"}", "]"} :
               Count(balanced.text, c) >= Count(raw, c)

\* the titles of the articles of a dict given as a sequence of [topic, articles]
TitlesIn(items) ==
    UNION {{items[i].articles[j].title : j \in 1..Len(items[i].articles)} :
           i \in 1..Len(items)}

\* the entries appended after a send that history.json still holds and
\* whose normalized title is not empty
SentAndKept ==
    {e \in recorded \cap AllEntries(historyFile.data) : Tokens(e.title) # {}}

\* C12. Once an article with a non-empty normalized title has been appended
\* to the store after a successful send, then as long as history.json holds
\* that entry no later run has an article with the same title among its
\* candidates (full_articles), under any topic, nor in its digest.
C12_NoResend ==
    \A p \in Procs :
        pc[p] \in {"prioritize", "reconcile", "send", "prune"} =>
            \A e \in SentAndKept :
                /\ e.title \notin TitlesIn(full_articles[p])
                /\ e.title \notin TitlesIn(digest[p])

\* a later run was offered by the feed a title sent before and still in the
\* store, and went on with other candidates
C12_Witness ==
    \E p \in Procs :
        /\ pc[p] = "prioritize"
        /\ \E e \in SentAndKept : \E t \in Topics :
              \E j \in 1..Len(feed[p][t]) : feed[p][t][j].title = e.title

\* C13. Every invocation that created newsbot.lock removes it before it
\* ends, on every exit path, so that when no run is in progress the lock is
\* absent and no invocation is rejected as "already running".
C13_LockReleased ==
    /\ (\A p \in Procs : Ended(p)) => ~lockfile
    /\ \A p \in Procs :
          (exitPath[p] = "already_running" /\ pc[p] = "done") =>
              \E q \in Procs \ {p} : ~Ended(q)

====
